---- MODULE Spec2Model ----
(***************************************************************************)
(* Model of getdesktopaudio.cpp: main (argument parsing, device setup),    *)
(* AudioCapture::StartCapturing (the polling loop),                        *)
(* AudioCapture::CaptureAndProcessAudio (acquire, extract, emit, release)  *)
(* and AudioCapture::ProcessAudioData (the sample extractor), together     *)
(* with the WASAPI capture client the loop talks to.                       *)
(*                                                                         *)
(* Sample values are fixed-point: the float 1.0f is the integer One.       *)
(***************************************************************************)
EXTENDS Integers, Sequences, FiniteSets, TLC

VARIABLES
    pc,                 \* position of the single thread of control
    argv,               \* argv[1..argc-1], each token a sequence of characters
    argi,               \* main: the loop index i (line 265)
    samplesCount,       \* main: int samplesCount (line 262)
    interval,           \* main: int interval (line 263)
    what,               \* e.what() of the exception in flight
    exitCode,           \* the value main returns (or the crash code)
    stdout,             \* records written to std::cout, in order
    stderr,             \* lines written to std::cerr, in order
    comOk,              \* CoInitializeEx succeeded
    device,             \* AudioDevice::device
    audioClient,        \* the IAudioClient owned by audioClientPtr
    captureClient,      \* AudioCapture::captureClient
    streamStarted,      \* IAudioClient::Start succeeded
    setupFailed,        \* history: some setup call returned a failure
    packetLength,       \* StartCapturing: UINT32 packetLength
    hrQuery,            \* StartCapturing: HRESULT hr
    hr,                 \* CaptureAndProcessAudio: HRESULT hr
    data,               \* CaptureAndProcessAudio: BYTE *data (the frames it points at)
    numFramesAvailable, \* CaptureAndProcessAudio: UINT32 numFramesAvailable
    framesToProcess,    \* ProcessAudioData: UINT32 framesToProcess
    i,                  \* ProcessAudioData: loop index
    audioSamples,       \* ProcessAudioData: std::vector<float>
    outputJson,         \* CaptureAndProcessAudio: json outputJson
    pending,            \* platform: packets queued in the endpoint buffer
    held,               \* platform: a packet is handed out and not yet released
    arrived,            \* platform: number of packets delivered so far
    faults,             \* number of platform/allocation failures so far
    stopRequested,      \* environment: an external stop has been requested
    acquired,           \* history: packets handed out by successful GetBuffer calls
    outstanding,        \* history: successful acquires not yet followed by ReleaseBuffer
    getBufferCalls,     \* history: number of GetBuffer calls
    everNonZero,        \* history: some GetNextPacketSize reported a non-zero size
    oob,                \* history: an index was out of range in ProcessAudioData
    staleRead,          \* history: frame data was read while no buffer was held
    sleepsSinceQuery,   \* history: sleep_for calls since the last GetNextPacketSize
    sleptSinceGetBuffer \* history: sleep_for was called since the last GetBuffer

vars == <<pc, argv, argi, samplesCount, interval, what, exitCode, stdout, stderr,
          comOk, device, audioClient, captureClient, streamStarted, setupFailed,
          packetLength, hrQuery, hr, data, numFramesAvailable, framesToProcess, i,
          audioSamples, outputJson, pending, held, arrived, faults, stopRequested,
          acquired, outstanding, getBufferCalls, everNonZero, oob, staleRead,
          sleepsSinceQuery, sleptSinceGetBuffer>>

mainVars     == <<argv, argi, samplesCount, interval, what, exitCode, stderr>>
setupVars    == <<comOk, device, audioClient, captureClient, streamStarted, setupFailed>>
loopVars     == <<packetLength, hrQuery>>
captureVars  == <<hr, data, numFramesAvailable>>
processVars  == <<framesToProcess, i, audioSamples, outputJson>>
platformVars == <<pending, held, arrived>>
callHistory  == <<acquired, outstanding, getBufferCalls, everNonZero, oob, staleRead>>
historyVars  == <<callHistory, sleepsSinceQuery, sleptSinceGetBuffer>>

----------------------------------------------------------------------------
(* Bounds of the model *)

MaxArgs    == 2     \* command-line tokens after the program name
MaxPackets == 2     \* packets the platform delivers in one run
MaxFaults  == 1     \* failing platform calls / allocations in one run
MaxFrames  == 3     \* frames per packet in the extractor's specification
MaxSamples == 6     \* largest budget in the extractor's specification

(* Program constants *)

DefaultSamples  == 64
DefaultInterval == 15
EXIT_SUCCESS    == 0
EXIT_FAILURE    == 1
AccessViolation == -1073741819     \* 0xC0000005 as a 32-bit int
HeapCorruption  == -1073740940     \* 0xC0000374 as a 32-bit int
One             == 10

----------------------------------------------------------------------------
(* Command line: tokens, strcmp and atoi *)

SamplesFlag  == <<"-", "s", "a", "m", "p", "l", "e", "s">>
IntervalFlag == <<"-", "i", "n", "t", "e", "r", "v", "a", "l">>

\* The tokens the command lines of the model are built from.
ArgTokens ==
    { SamplesFlag, IntervalFlag,
      <<"0">>, <<"-", "2">>, <<"3", "x">> }

RECURSIVE SeqsUpTo(_, _)
SeqsUpTo(S, n) ==
    IF n = 0 THEN { <<>> }
    ELSE LET shorter == SeqsUpTo(S, n - 1)
         IN  shorter \cup { Append(s, x) : s \in shorter, x \in S }

ArgVectors == SeqsUpTo(ArgTokens, MaxArgs)

IsDigit(c) == c \in {"0", "1", "2", "3", "4", "5", "6", "7", "8", "9"}

DigitValue(c) ==
    CASE c = "0" -> 0 [] c = "1" -> 1 [] c = "2" -> 2 [] c = "3" -> 3
      [] c = "4" -> 4 [] c = "5" -> 5 [] c = "6" -> 6 [] c = "7" -> 7
      [] c = "8" -> 8 [] c = "9" -> 9

\* The digits of s from position k on, up to the first non-digit.
RECURSIVE AtoiDigits(_, _, _)
AtoiDigits(s, k, acc) ==
    IF k <= Len(s) /\ IsDigit(s[k])
    THEN AtoiDigits(s, k + 1, acc * 10 + DigitValue(s[k]))
    ELSE acc

RECURSIVE SkipSpace(_, _)
SkipSpace(s, k) ==
    IF k <= Len(s) /\ s[k] = " " THEN SkipSpace(s, k + 1) ELSE k

\* atoi: leading white space, an optional sign, then digits; 0 when there are none.
\* (The tokens of the model are short: the value always fits an int.)
Atoi(s) ==
    LET k == SkipSpace(s, 1)
    IN  IF k <= Len(s) /\ s[k] = "-" THEN 0 - AtoiDigits(s, k + 1, 0)
        ELSE IF k <= Len(s) /\ s[k] = "+" THEN AtoiDigits(s, k + 1, 0)
        ELSE AtoiDigits(s, k, 0)

\* A value that passes for positive although it is 0.
Rejected_ZeroAllowed(v) == v < 0

\* if (samplesCount <= 0) throw ...; if (interval <= 0) throw ...
Rejected(v) == v <= 0

\* strcmp(argv[i], flag) == 0 && i + 1 < argc
FlagAt(flag) == argv[argi] = flag /\ argi + 1 <= Len(argv)

----------------------------------------------------------------------------
(* Samples and packets *)

Min(a, b) == IF a < b THEN a ELSE b

\* The sign is kept.
Fabs_Identity(x) == x

\* std::fabs
Fabs(x) == IF x < 0 THEN 0 - x ELSE x

\* Only the lower bound is applied.
Clamp_NoUpper(v, lo, hi) == IF v < lo THEN lo ELSE v

\* std::clamp(v, lo, hi)
Clamp(v, lo, hi) == IF v < lo THEN lo ELSE IF hi < v THEN hi ELSE v

\* A frame is <<left, right>>. Values of magnitude above One are out of range.
Frames ==
    { <<2, -3>>, <<9, 1>>, <<-15, 12>>, <<0, 0>>, <<10, -10>> }

\* The packets the extractor's specification feeds to ProcessAudioData.
ExtractorPackets == SeqsUpTo(Frames, MaxFrames)

\* The ten-frame packet of the end-to-end example.
ExamplePacket ==
    << <<2, -3>>, <<9, 1>>, <<-15, 12>>, <<0, 0>>, <<10, -10>>,
       <<-1, 4>>, <<5, -6>>, <<7, 8>>, <<-9, 3>>, <<11, -2>> >>

\* The packets the platform delivers to the capture loop, in this order, over
\* and over: the k-th packet to arrive is PacketCycle[((k - 1) % 3) + 1].
PacketCycle ==
    << << <<9, 1>>, <<-15, 12>> >>,
       << <<2, -3>> >>,
       << <<10, -10>>, <<0, 0>>, <<-3, 2>> >> >>

NthPacket(k) == PacketCycle[((k - 1) % Len(PacketCycle)) + 1]

NullData == <<>>

----------------------------------------------------------------------------
(* The capture client (IAudioCaptureClient), as the loop sees it *)

\* GetNextPacketSize: the frame count of the next packet, 0 when none is queued.
NextPacketSize == IF pending = <<>> THEN 0 ELSE Len(Head(pending))

\* Failing calls are drawn by the actions while the run's budget lasts.
MayFail == faults < MaxFaults

----------------------------------------------------------------------------
(* The state after process start, before main's first statement *)

InitRest ==
    /\ argi = 1
    /\ interval = DefaultInterval
    /\ what = ""
    /\ exitCode = EXIT_SUCCESS
    /\ stdout = <<>>
    /\ stderr = <<>>
    /\ comOk = FALSE
    /\ device = "null"
    /\ audioClient = "null"
    /\ captureClient = "null"
    /\ streamStarted = FALSE
    /\ setupFailed = FALSE
    /\ packetLength = 0
    /\ hrQuery = "none"
    /\ framesToProcess = 0
    /\ i = 0
    /\ audioSamples = <<>>
    /\ outputJson = <<>>
    /\ pending = <<>>
    /\ arrived = 0
    /\ faults = 0
    /\ stopRequested = FALSE
    /\ acquired = <<>>
    /\ outstanding = 0
    /\ getBufferCalls = 0
    /\ everNonZero = FALSE
    /\ oob = FALSE
    /\ staleRead = FALSE
    /\ sleepsSinceQuery = 0
    /\ sleptSinceGetBuffer = FALSE

Init ==
    /\ pc = "com_init"
    /\ argv \in ArgVectors
    /\ samplesCount = DefaultSamples
    /\ hr = "none"
    /\ data = NullData
    /\ numFramesAvailable = 0
    /\ held = FALSE
    /\ InitRest

----------------------------------------------------------------------------
(* main: COM initialisation and the argument loop *)

\* COMInitializer::COMInitializer: a failing CoInitializeEx is not reported.
Main_ComInit ==
    /\ pc = "com_init"
    /\ \/ /\ comOk' = TRUE
          /\ UNCHANGED <<faults, setupFailed>>
       \/ /\ MayFail
          /\ comOk' = FALSE
          /\ faults' = faults + 1
          /\ setupFailed' = TRUE
    /\ pc' = "parse"
    /\ UNCHANGED <<mainVars, stdout, device, audioClient, captureClient, streamStarted,
                   loopVars, captureVars, processVars, platformVars, stopRequested,
                   historyVars>>

\* One iteration of the for loop over argv.
Main_ParseArg ==
    /\ pc = "parse"
    /\ argi <= Len(argv)
    /\ IF FlagAt(SamplesFlag)
       THEN /\ samplesCount' = Atoi(argv[argi + 1])
            /\ argi' = argi + 2
            /\ IF Rejected(samplesCount')
               THEN pc' = "catch" /\ what' = "Samples count must be positive."
               ELSE pc' = "parse" /\ what' = what
            /\ UNCHANGED interval
       ELSE IF FlagAt(IntervalFlag)
       THEN /\ interval' = Atoi(argv[argi + 1])
            /\ argi' = argi + 2
            /\ IF Rejected(interval')
               THEN pc' = "catch" /\ what' = "Interval must be positive."
               ELSE pc' = "parse" /\ what' = what
            /\ UNCHANGED samplesCount
       ELSE /\ argi' = argi + 1
            /\ UNCHANGED <<pc, what, samplesCount, interval>>
    /\ UNCHANGED <<argv, exitCode, stdout, stderr, setupVars, loopVars, captureVars,
                   processVars, platformVars, faults, stopRequested, historyVars>>

\* The for loop ends: i == argc.
Main_ParseDone ==
    /\ pc = "parse"
    /\ argi > Len(argv)
    /\ pc' = "device"
    /\ UNCHANGED <<mainVars, stdout, setupVars, loopVars, captureVars, processVars,
                   platformVars, faults, stopRequested, historyVars>>

----------------------------------------------------------------------------
(* main: device setup *)

\* AudioDevice::AudioDevice: CoCreateInstance, then GetDefaultAudioEndpoint; either
\* failure throws. On a thread where CoInitializeEx failed, CoCreateInstance
\* fails (CO_E_NOTINITIALIZED).
Main_AudioDevice ==
    /\ pc = "device"
    /\ \/ /\ comOk
          /\ device' = "valid"
          /\ pc' = "client"
          /\ UNCHANGED <<what, faults, setupFailed>>
       \/ /\ MayFail \/ ~comOk
          /\ what' \in {"Failed audio device: ", "Failed audio device endpoint: "}
          /\ faults' = IF comOk THEN faults + 1 ELSE faults
          /\ setupFailed' = TRUE
          /\ pc' = "catch"
          /\ UNCHANGED device
    /\ UNCHANGED <<argv, argi, samplesCount, interval, exitCode, stdout, stderr, comOk,
                   audioClient, captureClient, streamStarted, loopVars, captureVars,
                   processVars, platformVars, stopRequested, historyVars>>

\* AudioDevice::InitializeAudioClient: Activate, GetMixFormat, Initialize; each
\* failure releases what was activated and throws.
Main_InitializeAudioClient ==
    /\ pc = "client"
    /\ \/ /\ audioClient' = "valid"
          /\ pc' = "capture"
          /\ UNCHANGED <<what, faults, setupFailed>>
       \/ /\ MayFail
          /\ what' \in {"Failed to activate audio client: ",
                        "Failed to get mix format: ",
                        "Failed to initialize audio client: "}
          /\ faults' = faults + 1
          /\ setupFailed' = TRUE
          /\ pc' = "catch"
          /\ UNCHANGED audioClient
    /\ UNCHANGED <<argv, argi, samplesCount, interval, exitCode, stdout, stderr, comOk,
                   device, captureClient, streamStarted, loopVars, captureVars,
                   processVars, platformVars, stopRequested, historyVars>>

\* AudioCapture::AudioCapture: GetService; a failure leaves captureClient null and
\* is not reported (the throw is commented out).
AudioCapture_Ctor ==
    /\ pc = "capture"
    /\ \/ /\ captureClient' = "valid"
          /\ UNCHANGED <<faults, setupFailed>>
       \/ /\ MayFail
          /\ captureClient' = "null"
          /\ faults' = faults + 1
          /\ setupFailed' = TRUE
    /\ pc' = "start"
    /\ UNCHANGED <<mainVars, stdout, comOk, device, audioClient, streamStarted,
                   loopVars, captureVars, processVars, platformVars, stopRequested,
                   historyVars>>

\* StartCapturing, line 175: audioClient->Start(); its result is discarded.
StartCapturing_Start ==
    /\ pc = "start"
    /\ \/ /\ streamStarted' = TRUE
          /\ UNCHANGED <<faults, setupFailed>>
       \/ /\ MayFail
          /\ streamStarted' = FALSE
          /\ faults' = faults + 1
          /\ setupFailed' = TRUE
    /\ pc' = "loop_top"
    /\ UNCHANGED <<mainVars, stdout, comOk, device, audioClient, captureClient,
                   loopVars, captureVars, processVars, platformVars, stopRequested,
                   historyVars>>

\* An exception leaves the try block: the objects constructed so far are destroyed
\* (~AudioCapture releases the capture client, the unique_ptr deletes the audio
\* client, ~AudioDevice releases the device), then the handler reports e.what()
\* on std::cerr and main returns EXIT_FAILURE.
Main_Catch ==
    /\ pc = "catch"
    /\ captureClient' = IF captureClient = "valid" THEN "released" ELSE captureClient
    /\ audioClient' = IF audioClient = "valid" THEN "deleted" ELSE audioClient
    /\ device' = IF device = "valid" THEN "released" ELSE device
    /\ stderr' = Append(stderr, what)
    /\ exitCode' = EXIT_FAILURE
    /\ pc' = "exited"
    /\ UNCHANGED <<argv, argi, samplesCount, interval, what, stdout, comOk,
                   streamStarted, setupFailed, loopVars, captureVars, processVars,
                   platformVars, faults, stopRequested, historyVars>>

\* The same unwinding when the audio client exists: audioClientPtr is a
\* std::unique_ptr<IAudioClient>, whose deleter applies delete to a COM object
\* that was not allocated with new and has no virtual destructor (Release is
\* never called). That is undefined: the delete either passes (Main_Catch) or
\* the heap check ends the process here, after ~AudioCapture and before the
\* handler has written anything.
Main_UnwindCrash ==
    /\ pc = "catch"
    /\ audioClient = "valid"
    /\ captureClient' = IF captureClient = "valid" THEN "released" ELSE captureClient
    /\ exitCode' = HeapCorruption
    /\ pc' = "crashed"
    /\ UNCHANGED <<argv, argi, samplesCount, interval, what, stdout, stderr, comOk,
                   device, audioClient, streamStarted, setupFailed, loopVars,
                   captureVars, processVars, platformVars, faults, stopRequested,
                   historyVars>>

----------------------------------------------------------------------------
(* AudioCapture::StartCapturing: the polling loop *)

LoopStates ==
    { "loop_top", "inner_test", "get_buffer", "process", "frame_loop", "emit",
      "release", "query_inner", "sleep_inner", "sleep_outer" }

SleepStates == { "sleep_inner", "sleep_outer" }

\* Lines 180-181 with captureClient == nullptr: the call through the null
\* pointer faults and the process is terminated, nothing is unwound.
StartCapturing_NullDeref ==
    /\ pc = "loop_top"
    /\ captureClient = "null"
    /\ pc' = "crashed"
    /\ exitCode' = AccessViolation
    /\ UNCHANGED <<argv, argi, samplesCount, interval, what, stdout, stderr, setupVars,
                   loopVars, captureVars, processVars, platformVars, faults,
                   stopRequested, historyVars>>

\* Lines 178-181: the top of while (true): packetLength = 0, then the query.
\* A failing query leaves the 0 in place.
StartCapturing_Query ==
    /\ pc = "loop_top"
    /\ captureClient = "valid"
    /\ \/ /\ hrQuery' = "S_OK"
          /\ packetLength' = NextPacketSize
          /\ UNCHANGED faults
       \/ /\ MayFail
          /\ hrQuery' = "FAILED"
          /\ packetLength' = 0
          /\ faults' = faults + 1
    /\ everNonZero' = (everNonZero \/ packetLength' # 0)
    /\ sleepsSinceQuery' = 0
    /\ pc' = "inner_test"
    /\ UNCHANGED <<mainVars, stdout, setupVars, captureVars, processVars, platformVars,
                   stopRequested, acquired, outstanding, getBufferCalls, oob, staleRead,
                   sleptSinceGetBuffer>>

\* The inner loop is entered whatever the query reported.
StartCapturing_InnerTest_Always ==
    /\ pc = "inner_test"
    /\ pc' = "get_buffer"
    /\ UNCHANGED <<mainVars, stdout, setupVars, loopVars, captureVars, processVars,
                   platformVars, faults, stopRequested, historyVars>>

\* Line 183: while (packetLength != 0)
StartCapturing_InnerTest ==
    /\ pc = "inner_test"
    /\ pc' = IF packetLength # 0 THEN "get_buffer" ELSE "sleep_outer"
    /\ UNCHANGED <<mainVars, stdout, setupVars, loopVars, captureVars, processVars,
                   platformVars, faults, stopRequested, historyVars>>

\* The inner loop goes from its query straight back to its test, without the
\* sleep of line 188.
StartCapturing_InnerQuery_NoSleep ==
    /\ pc = "query_inner"
    /\ \/ /\ hrQuery' = "S_OK"
          /\ packetLength' = NextPacketSize
          /\ UNCHANGED faults
       \/ /\ MayFail
          /\ hrQuery' = "FAILED"
          /\ packetLength' = packetLength
          /\ faults' = faults + 1
    /\ everNonZero' = (everNonZero \/ (hrQuery' = "S_OK" /\ packetLength' # 0))
    /\ sleepsSinceQuery' = 0
    /\ pc' = "inner_test"
    /\ UNCHANGED <<mainVars, stdout, setupVars, captureVars, processVars, platformVars,
                   stopRequested, acquired, outstanding, getBufferCalls, oob, staleRead,
                   sleptSinceGetBuffer>>

\* Line 186: the query inside the inner loop. A failing query leaves the
\* previous packetLength in place.
StartCapturing_InnerQuery ==
    /\ pc = "query_inner"
    /\ \/ /\ hrQuery' = "S_OK"
          /\ packetLength' = NextPacketSize
          /\ UNCHANGED faults
       \/ /\ MayFail
          /\ hrQuery' = "FAILED"
          /\ packetLength' = packetLength
          /\ faults' = faults + 1
    /\ everNonZero' = (everNonZero \/ (hrQuery' = "S_OK" /\ packetLength' # 0))
    /\ sleepsSinceQuery' = 0
    /\ pc' = "sleep_inner"
    /\ UNCHANGED <<mainVars, stdout, setupVars, captureVars, processVars, platformVars,
                   stopRequested, acquired, outstanding, getBufferCalls, oob, staleRead,
                   sleptSinceGetBuffer>>

\* Line 188: sleep_for(interval) inside the inner loop.
StartCapturing_InnerSleep ==
    /\ pc = "sleep_inner"
    /\ sleepsSinceQuery' = sleepsSinceQuery + 1
    /\ sleptSinceGetBuffer' = TRUE
    /\ pc' = "inner_test"
    /\ UNCHANGED <<mainVars, stdout, setupVars, loopVars, captureVars, processVars,
                   platformVars, faults, stopRequested, callHistory>>

\* Line 191: sleep_for(interval) at the end of the outer loop body.
StartCapturing_OuterSleep ==
    /\ pc = "sleep_outer"
    /\ sleepsSinceQuery' = sleepsSinceQuery + 1
    /\ sleptSinceGetBuffer' = TRUE
    /\ pc' = "loop_top"
    /\ UNCHANGED <<mainVars, stdout, setupVars, loopVars, captureVars, processVars,
                   platformVars, faults, stopRequested, callHistory>>

----------------------------------------------------------------------------
(* AudioCapture::CaptureAndProcessAudio *)

\* The packet is handed back to the platform as soon as it has been fetched:
\* the frames are extracted from a buffer that is no longer held.
CaptureAndProcessAudio_GetBuffer_EarlyRelease ==
    /\ pc = "get_buffer"
    /\ \/ /\ ~held /\ pending # <<>>
          /\ hr' = "S_OK"
          /\ data' = Head(pending)
          /\ numFramesAvailable' = Len(Head(pending))
          /\ held' = FALSE
          /\ acquired' = Append(acquired, Head(pending))
          /\ outstanding' = outstanding + 1
          /\ UNCHANGED faults
       \/ /\ ~held /\ pending = <<>>
          /\ hr' = "S_BUFFER_EMPTY"
          /\ data' = NullData
          /\ numFramesAvailable' = 0
          /\ UNCHANGED <<held, acquired, outstanding, faults>>
       \/ /\ MayFail \/ held
          /\ hr' = "FAILED"
          /\ data' = NullData
          /\ numFramesAvailable' = 0
          /\ faults' = IF held THEN faults ELSE faults + 1
          /\ UNCHANGED <<held, acquired, outstanding>>
    /\ getBufferCalls' = getBufferCalls + 1
    /\ sleptSinceGetBuffer' = FALSE
    /\ pc' = "process"
    /\ UNCHANGED <<mainVars, stdout, setupVars, loopVars, processVars, pending, arrived,
                   stopRequested, everNonZero, oob, staleRead, sleepsSinceQuery>>

\* Lines 200-209: GetBuffer. A failure (also: a packet is still handed out) leaves
\* data null and numFramesAvailable 0 and is not reported; with nothing queued
\* the call succeeds with AUDCLNT_S_BUFFER_EMPTY and no frames.
CaptureAndProcessAudio_GetBuffer ==
    /\ pc = "get_buffer"
    /\ \/ /\ ~held /\ pending # <<>>
          /\ hr' = "S_OK"
          /\ data' = Head(pending)
          /\ numFramesAvailable' = Len(Head(pending))
          /\ held' = TRUE
          /\ acquired' = Append(acquired, Head(pending))
          /\ outstanding' = outstanding + 1
          /\ UNCHANGED faults
       \/ /\ ~held /\ pending = <<>>
          /\ hr' = "S_BUFFER_EMPTY"
          /\ data' = NullData
          /\ numFramesAvailable' = 0
          /\ UNCHANGED <<held, acquired, outstanding, faults>>
       \/ /\ MayFail \/ held
          /\ hr' = "FAILED"
          /\ data' = NullData
          /\ numFramesAvailable' = 0
          /\ faults' = IF held THEN faults ELSE faults + 1
          /\ UNCHANGED <<held, acquired, outstanding>>
    /\ getBufferCalls' = getBufferCalls + 1
    /\ sleptSinceGetBuffer' = FALSE
    /\ pc' = "process"
    /\ UNCHANGED <<mainVars, stdout, setupVars, loopVars, processVars, pending, arrived,
                   stopRequested, everNonZero, oob, staleRead, sleepsSinceQuery>>

\* Line 213: std::cout << outputJson.dump(-1) << std::endl
CaptureAndProcessAudio_Emit ==
    /\ pc = "emit"
    /\ stdout' = Append(stdout, outputJson)
    /\ pc' = "release"
    /\ UNCHANGED <<mainVars, setupVars, loopVars, captureVars, processVars,
                   platformVars, faults, stopRequested, historyVars>>

\* A release call that passes the number of frames the extractor processed.
ReleaseArg_Processed == framesToProcess

\* Line 215: the argument of ReleaseBuffer is the frame count GetBuffer reported.
ReleaseArg == numFramesAvailable

\* IAudioCaptureClient::ReleaseBuffer takes either 0 or the exact frame count of
\* the packet that is held; any other count is AUDCLNT_E_INVALID_SIZE.
ReleaseAccepted(n) ==
    IF held /\ pending # <<>> THEN n = 0 \/ n = Len(Head(pending)) ELSE n = 0

\* Lines 215-221: ReleaseBuffer(numFramesAvailable), its result discarded, and the
\* return. Releasing all frames of the packet consumes it; releasing 0 frames hands
\* the packet back unread; a failing call changes nothing on the platform's side.
CaptureAndProcessAudio_Release ==
    /\ pc = "release"
    /\ \/ /\ ReleaseAccepted(ReleaseArg)
          /\ held' = FALSE
          /\ pending' = IF held /\ ReleaseArg # 0 THEN Tail(pending) ELSE pending
          /\ UNCHANGED faults
       \/ /\ MayFail \/ ~ReleaseAccepted(ReleaseArg)
          /\ faults' = IF ReleaseAccepted(ReleaseArg) THEN faults + 1 ELSE faults
          /\ UNCHANGED <<held, pending>>
    /\ outstanding' = IF outstanding > 0 THEN outstanding - 1 ELSE 0
    /\ hr' = "none"
    /\ data' = NullData
    /\ numFramesAvailable' = 0
    /\ framesToProcess' = 0
    /\ i' = 0
    /\ audioSamples' = <<>>
    /\ outputJson' = <<>>
    /\ pc' = "query_inner"
    /\ UNCHANGED <<mainVars, stdout, setupVars, loopVars, arrived, stopRequested,
                   acquired, getBufferCalls, everNonZero, oob, staleRead,
                   sleepsSinceQuery, sleptSinceGetBuffer>>

----------------------------------------------------------------------------
(* AudioCapture::ProcessAudioData *)

\* std::vector<float>(n): n zeros.
Zeros(n) == [k \in 1..n |-> 0]

\* std::vector::resize(n)
Resize(v, n) == [k \in 1..n |-> IF k <= Len(v) THEN v[k] ELSE 0]

\* v[index] = value, index counted from 0; a store past the end does not land
\* in the vector.
Store(v, index, value) ==
    IF index < Len(v) THEN [v EXCEPT ![index + 1] = value] ELSE v

\* The cap is the budget itself, not half of it.
FramesToProcess_NoHalving(frames, samples) == Min(frames, samples)

\* The cap is rounded up: an odd budget admits one frame too many.
FramesToProcess_RoundUp(frames, samples) == Min(frames, (samples + 1) \div 2)

\* std::min<UINT32>(numFramesAvailable, static_cast<UINT32>(samplesCount / 2))
FramesToProcess(frames, samples) == Min(frames, samples \div 2)

\* Lines 225-227: the vector is allocated, the frame count is capped.
ProcessAudioData_Enter ==
    /\ pc = "process"
    /\ audioSamples' = Zeros(samplesCount)
    /\ framesToProcess' = FramesToProcess(numFramesAvailable, samplesCount)
    /\ i' = 0
    /\ pc' = "frame_loop"
    /\ UNCHANGED <<mainVars, stdout, setupVars, loopVars, captureVars, outputJson,
                   platformVars, faults, stopRequested, historyVars>>

\* Line 225 when the allocation fails: std::bad_alloc leaves ProcessAudioData,
\* CaptureAndProcessAudio and StartCapturing (none has a handler) and reaches
\* main's catch.
ProcessAudioData_AllocThrows ==
    /\ pc = "process"
    /\ MayFail
    /\ faults' = faults + 1
    /\ what' = "bad allocation"
    /\ pc' = "catch"
    /\ UNCHANGED <<argv, argi, samplesCount, interval, exitCode, stdout, stderr,
                   setupVars, loopVars, captureVars, processVars, platformVars,
                   stopRequested, historyVars>>

\* Lines 229-236: one iteration of the for loop.
ProcessAudioData_Frame ==
    /\ pc = "frame_loop"
    /\ i < framesToProcess
    /\ LET inRange     == i < Len(data)   \* the read stays inside the packet
           leftSample  == IF inRange THEN data[i + 1][1] ELSE 0
           rightSample == IF inRange THEN data[i + 1][2] ELSE 0
       IN  /\ audioSamples' =
                 Store(Store(audioSamples, i * 2, Clamp(Fabs(leftSample), 0, One)),
                       i * 2 + 1, Clamp(Fabs(rightSample), 0, One))
           /\ oob' = (oob \/ ~inRange \/ i * 2 + 1 >= Len(audioSamples))
    /\ staleRead' = (staleRead \/ ~held)
    /\ i' = i + 1
    /\ UNCHANGED <<pc, mainVars, stdout, setupVars, loopVars, captureVars,
                   framesToProcess, outputJson, platformVars, faults, stopRequested,
                   acquired, outstanding, getBufferCalls, everNonZero,
                   sleepsSinceQuery, sleptSinceGetBuffer>>

\* Lines 238-249: the loop is over; the vector is cut to the frames written and
\* returned as the record.
ProcessAudioData_Return ==
    /\ pc = "frame_loop"
    /\ i >= framesToProcess
    /\ audioSamples' = Resize(audioSamples, framesToProcess * 2)
    /\ outputJson' = audioSamples'
    /\ pc' = "emit"
    /\ UNCHANGED <<mainVars, stdout, setupVars, loopVars, captureVars,
                   framesToProcess, i, platformVars, faults, stopRequested,
                   historyVars>>

----------------------------------------------------------------------------
(* The environment *)

\* The endpoint queues one more packet while the loop sleeps.
PacketArrives ==
    /\ pc \in SleepStates
    /\ streamStarted
    /\ arrived < MaxPackets
    /\ pending' = Append(pending, NthPacket(arrived + 1))
    /\ arrived' = arrived + 1
    /\ UNCHANGED <<pc, mainVars, stdout, setupVars, loopVars, captureVars, processVars,
                   held, faults, stopRequested, historyVars>>

\* Somebody asks the helper to stop. Nothing in the program reads the request.
RequestStop ==
    /\ pc \in LoopStates
    /\ ~stopRequested
    /\ stopRequested' = TRUE
    /\ UNCHANGED <<pc, mainVars, stdout, setupVars, loopVars, captureVars, processVars,
                   platformVars, faults, historyVars>>

----------------------------------------------------------------------------
(* The program *)

Next ==
    \/ Main_ComInit
    \/ Main_ParseArg
    \/ Main_ParseDone
    \/ Main_AudioDevice
    \/ Main_InitializeAudioClient
    \/ AudioCapture_Ctor
    \/ StartCapturing_Start
    \/ Main_Catch
    \/ Main_UnwindCrash
    \/ StartCapturing_NullDeref
    \/ StartCapturing_Query
    \/ StartCapturing_InnerTest
    \/ StartCapturing_InnerQuery
    \/ StartCapturing_InnerSleep
    \/ StartCapturing_OuterSleep
    \/ CaptureAndProcessAudio_GetBuffer
    \/ CaptureAndProcessAudio_Emit
    \/ CaptureAndProcessAudio_Release
    \/ ProcessAudioData_Enter
    \/ ProcessAudioData_AllocThrows
    \/ ProcessAudioData_Frame
    \/ ProcessAudioData_Return
    \/ PacketArrives
    \/ RequestStop

Spec == Init /\ [][Next]_vars

----------------------------------------------------------------------------
(* The extractor on its own: ProcessAudioData called on every packet of up to  *)
(* MaxFrames frames (and on the ten-frame example) with every budget up to     *)
(* MaxSamples (and the default budget).                                        *)

InitExtract ==
    /\ pc = "process"
    /\ argv = <<>>
    /\ \/ /\ data \in ExtractorPackets
          /\ samplesCount \in 1..MaxSamples
       \/ /\ data = ExamplePacket
          /\ samplesCount = DefaultSamples
    /\ numFramesAvailable = Len(data)
    /\ hr = IF data = NullData THEN "S_BUFFER_EMPTY" ELSE "S_OK"
    /\ held = (data # NullData)
    /\ InitRest

NextExtract ==
    \/ ProcessAudioData_Enter
    \/ ProcessAudioData_Frame
    \/ ProcessAudioData_Return

ExtractSpec == InitExtract /\ [][NextExtract]_vars

----------------------------------------------------------------------------
(* Properties *)

\* clamp(|x|, 0, 1) as the specification words it
Amplitude(x) ==
    LET magnitude == IF x >= 0 THEN x ELSE 0 - x
    IN  IF magnitude > One THEN One ELSE magnitude

\* The interleaved amplitudes of the first p frames of a packet.
InterleavedAmplitudes(frames, p) ==
    [k \in 1..(2 * p) |-> Amplitude(frames[(k + 1) \div 2][IF k % 2 = 1 THEN 1 ELSE 2])]

\* C1: every successful GetBuffer is followed by exactly one ReleaseBuffer before
\* the next GetBuffer and before the loop is left, also when the step between
\* them raises an error: no second acquire with one outstanding, and none
\* outstanding when GetBuffer is called again or the process has ended.
C1_ReleasePerAcquire ==
    /\ outstanding <= 1
    /\ pc \in {"get_buffer", "exited", "crashed"} => outstanding = 0

\* C2: the record ProcessAudioData returns for a packet has at most samplesCount
\* scalars, for every packet and every positive budget.
C2_RecordWithinBudget ==
    pc = "emit" => Len(outputJson) <= samplesCount

\* C2 witness: a packet with more frames than the budget admits has gone through
\* the extractor with an odd budget and produced a non-empty record.
C2_Witness ==
    /\ pc = "emit"
    /\ samplesCount % 2 = 1
    /\ Len(data) * 2 > samplesCount
    /\ outputJson # <<>>

\* C3: as long as no GetNextPacketSize query has reported a non-zero size, nothing
\* has been written to standard output, GetBuffer has not been called, and the
\* loop is at its query, at the test of the answer or in the outer sleep.
C3_ZeroPacketsNoOutput ==
    ~everNonZero =>
        /\ stdout = <<>>
        /\ getBufferCalls = 0
        /\ pc \in LoopStates => pc \in {"loop_top", "inner_test", "sleep_outer"}

\* C3 witness: the loop is back at its top after a query that succeeded and
\* reported zero, with the stream running.
C3_Witness ==
    /\ pc = "loop_top"
    /\ streamStarted
    /\ hrQuery = "S_OK"
    /\ ~everNonZero

\* C4: a packet whose GetBuffer failed is skipped and no record is written for
\* it: CaptureAndProcessAudio never stands after its write to standard output
\* (line 213) holding the failed result of GetBuffer.
C4_FailedAcquireSkipsPacket ==
    (hr = "FAILED" /\ pc = "release") => FALSE

\* C5: the record of a stereo packet of F frames under budget S is the interleaved
\* sequence of clamp(|l|, 0, 1), clamp(|r|, 0, 1) over the first P = min(F, S / 2)
\* frames in arrival order, 2 * P scalars long; ten frames under budget 64 give
\* twenty scalars.
C5_AmplitudeRecord ==
    pc = "emit" =>
        LET P == Min(Len(data), samplesCount \div 2)
        IN  /\ Len(outputJson) = 2 * P
            /\ outputJson = InterleavedAmplitudes(data, P)
            /\ (data = ExamplePacket /\ samplesCount = DefaultSamples)
                  => Len(outputJson) = 2 * Len(ExamplePacket)

\* C5 witness: the ten-frame example has been extracted under the default budget.
C5_Witness ==
    /\ pc = "emit"
    /\ data = ExamplePacket
    /\ samplesCount = DefaultSamples
    /\ Len(outputJson) = 20
    /\ outputJson[1] = 2 /\ outputJson[2] = 3 /\ outputJson[3] = 9 /\ outputJson[4] = 1

C7_SetupFailureIsFatal ==
    setupFailed =>
        /\ hrQuery = "none"
        /\ getBufferCalls = 0
        /\ stdout = <<>>
        /\ pc \in {"exited", "crashed"} => (exitCode # 0 /\ stderr # <<>>)

\* The positions k at which -samples or -interval is followed by a value.
FlagPositions ==
    { k \in 1..Len(argv) : k + 1 <= Len(argv) /\ argv[k] \in {SamplesFlag, IntervalFlag} }

\* Some -samples or -interval is followed by a value that is not positive.
HasBadValue == \E k \in FlagPositions : Atoi(argv[k + 1]) <= 0

\* C8: with a non-positive value after -samples or -interval the process never
\* gets past the argument loop (no endpoint is acquired, no record is written)
\* and ends with a nonzero exit code; with no -samples/-interval value on the
\* command line the budget stays 64 and the interval 15.
C8_CommandLineValidation ==
    /\ HasBadValue =>
          /\ pc \in {"com_init", "parse", "catch", "exited"}
          /\ device = "null"
          /\ stdout = <<>>
          /\ pc = "exited" => exitCode # 0
    /\ FlagPositions = {} =>
          (samplesCount = DefaultSamples /\ interval = DefaultInterval)

\* C8 witness: a command line with a non-positive value has ended the process
\* with EXIT_FAILURE and its message on standard error.
C8_Witness ==
    /\ HasBadValue
    /\ pc = "exited"
    /\ exitCode = EXIT_FAILURE
    /\ stderr \in { <<"Samples count must be positive.">>, <<"Interval must be positive.">> }

\* C9: a stop requested while the loop runs is observed at the top of the next
\* iteration: from the top of the loop the program then goes to the stopped
\* position (the stream stopped, line 194), not into another query.
C9_StopObservedAtLoopTop ==
    [][(stopRequested /\ pc = "loop_top" /\ pc' # pc) => pc' = "stopped"]_vars

\* C10: the k-th record written to standard output is the record of the k-th
\* packet acquired, and a packet's record is written before the next packet is
\* acquired.
C10_RecordsFollowPackets ==
    /\ Len(stdout) <= Len(acquired)
    /\ Len(acquired) <= Len(stdout) + 1
    /\ \A k \in 1..Len(stdout) :
          k <= Len(acquired) =>
              stdout[k] = InterleavedAmplitudes(acquired[k],
                              Min(Len(acquired[k]), samplesCount \div 2))

\* C11: at most one packet is drained per wake-up: whenever GetBuffer is about to
\* be called again, the loop has slept since the previous GetBuffer call, also
\* when another packet was already pending right after the release.
C11_SleepBetweenAcquires ==
    (pc = "get_buffer" /\ getBufferCalls > 0) => sleptSinceGetBuffer

\* C11 witness: a second GetBuffer is about to be called for a packet that was
\* already queued behind the first one when the first was released.
C11_Witness ==
    /\ pc = "get_buffer"
    /\ getBufferCalls = 1
    /\ Len(stdout) = 1
    /\ arrived = 2
    /\ Len(pending) = 1
    /\ faults = 0
    /\ sleepsSinceQuery = 1

\* C12: after a packet the loop releases, sleeps, and only then queries again: it
\* never sleeps twice without a GetNextPacketSize query in between, and when the
\* test of line 183 decides whether to drain, the query it relies on was made
\* after the most recent sleep.
C12_QueryAfterSleep ==
    /\ sleepsSinceQuery <= 1
    /\ pc = "inner_test" => sleepsSinceQuery = 0

\* C13: the packet view is never read after release: every read of frame data
\* in ProcessAudioData happens while the buffer handed out by GetBuffer is
\* still held, on that very packet; what is written to standard output is the
\* copy made then.
C13_NoReadAfterRelease ==
    /\ ~staleRead
    /\ (pc = "frame_loop" /\ i < framesToProcess) =>
          (held /\ hr = "S_OK" /\ pending # <<>> /\ data = Head(pending))

\* C13 witness: a packet's frames have been read, its record written and the
\* buffer released.
C13_Witness ==
    /\ pc = "query_inner"
    /\ ~held
    /\ stdout # <<>>
    /\ stdout[Len(stdout)] # <<>>
    /\ outstanding = 0

\* C14: once the loopback stream (the audio client) has been acquired it is
\* released exactly once on every path by which the process ends: when the
\* process has ended, an audio client that was acquired has been given up.
C14_StreamReleasedOnce ==
    (pc \in {"exited", "crashed"} /\ audioClient # "null") => audioClient = "deleted"

\* C15: every GetBuffer call is justified by a fresh report: when
\* CaptureAndProcessAudio is about to be called, the last GetNextPacketSize
\* query succeeded and reported a non-zero size; a failed query leads to no
\* drain attempt.
C15_DrainOnlyAfterGoodQuery ==
    pc = "get_buffer" => (hrQuery = "S_OK" /\ packetLength # 0)

\* C16: index safety of the extractor for every samplesCount >= 1 and every
\* numFramesAvailable >= 0: each frame read has an index below
\* numFramesAvailable, each store into the vector (at 2i and 2i + 1) an index
\* below samplesCount, and with samplesCount = 1 nothing is read or stored and
\* the record is empty.
C16_IndexSafety ==
    /\ ~oob
    /\ (pc = "frame_loop" /\ i < framesToProcess) =>
          /\ i < numFramesAvailable
          /\ i < Len(data)
          /\ Len(audioSamples) = samplesCount
          /\ i * 2 + 1 < samplesCount
    /\ (pc \in {"frame_loop", "emit"} /\ samplesCount = 1) =>
          (framesToProcess = 0 /\ i = 0)
    /\ (pc = "emit" /\ samplesCount = 1) => outputJson = <<>>

\* C16 witness: with an odd budget of 5 and a packet of 3 frames the loop is
\* about to handle its last admitted frame, storing at indices 2 and 3 of 5.
C16_Witness ==
    /\ pc = "frame_loop"
    /\ samplesCount = 5
    /\ Len(data) = 3
    /\ framesToProcess = 2
    /\ i = 1

====
